---- MODULE Spec2Model ----
(***************************************************************************)
(* Model of src/src/index.ts: the GoogleCalendarMCPServer process.         *)
(*                                                                         *)
(* A JavaScript object whose fields may be missing is a function whose     *)
(* DOMAIN is the set of fields that are present (an absent key reads as    *)
(* undefined).  The `arguments` member of a tools/call request may itself  *)
(* be missing: an invocation carries hasArgs and, when hasArgs, args.      *)
(***************************************************************************)
EXTENDS Integers, Sequences, FiniteSets, TLC

VARIABLES env, phase, oauth2Client, now, nextId, inflight, responses, last

vars == <<env, phase, oauth2Client, now, nextId, inflight, responses, last>>

(***************************************************************************)
(* Bounds of the exploration.                                              *)
(***************************************************************************)
\* number of tools/call requests the process receives in one run
MaxReq == 2
\* number of clock ticks (new Date() readings that differ) in one run
MaxClock == 1

(***************************************************************************)
(* JavaScript objects as partial maps.                                     *)
(***************************************************************************)
EmptyObj == [k \in {} |-> ""]

Has(obj, k) == k \in DOMAIN obj

\* every object with exactly the keys of one subset of the fields of rec,
\* each key carrying one of the values rec lists for it
ObjectsOver(rec) ==
  UNION { [ks -> UNION { rec[k] : k \in ks }] : ks \in SUBSET DOMAIN rec }

WellTyped(rec, obj) == \A k \in DOMAIN obj : obj[k] \in rec[k]

(***************************************************************************)
(* The environment the process is started in (process.env).                *)
(***************************************************************************)
EnvValues ==
  [ GOOGLE_CLIENT_ID     |-> {"", "cid"},
    GOOGLE_CLIENT_SECRET |-> {"", "csec"},
    GOOGLE_REDIRECT_URI  |-> {"http://localhost/cb"},
    GOOGLE_REFRESH_TOKEN |-> {"", "rtok"} ]

Environments == { e \in ObjectsOver(EnvValues) : WellTyped(EnvValues, e) }

\* !x for a string-or-undefined environment variable
Missing(obj, k) == ~Has(obj, k) \/ obj[k] = ""

\* obj.k || dflt for a string field
StrOr(obj, k, dflt) == IF Missing(obj, k) THEN dflt ELSE obj[k]

\* obj.k || dflt for a number field
NumOr(obj, k, dflt) == IF ~Has(obj, k) \/ obj[k] = 0 THEN dflt ELSE obj[k]

OobRedirect == "urn:ietf:wg:oauth:2.0:oob"

\* the client before setupAuth has assigned it
NoClient ==
  [ clientId |-> "", clientSecret |-> "", redirectUri |-> "",
    credentials |-> EmptyObj ]

\* new google.auth.OAuth2(clientId, clientSecret, redirectUri), then
\* setCredentials({refresh_token}) when a refresh token is configured
NewClientCredentials(e) ==
  IF Missing(e, "GOOGLE_REFRESH_TOKEN") THEN EmptyObj
  ELSE ("refresh_token" :> e["GOOGLE_REFRESH_TOKEN"])

NewClient(e) ==
  [ clientId     |-> e["GOOGLE_CLIENT_ID"],
    clientSecret |-> e["GOOGLE_CLIENT_SECRET"],
    redirectUri  |-> StrOr(e, "GOOGLE_REDIRECT_URI", OobRedirect),
    credentials  |-> NewClientCredentials(e) ]

\* variant: only an unset variable counts as absent, an empty one passes
SetupAuthThrowsUnsetOnly(e) ==
  ~Has(e, "GOOGLE_CLIENT_ID") \/ ~Has(e, "GOOGLE_CLIENT_SECRET")

SetupAuthThrows(e) ==
  Missing(e, "GOOGLE_CLIENT_ID") \/ Missing(e, "GOOGLE_CLIENT_SECRET")

(***************************************************************************)
(* The tool invocations explored.                                          *)
(***************************************************************************)
ToolNames == {"get_auth_url", "list_events", "create_event"}

Call(name, hasArgs, args) == [ name |-> name, hasArgs |-> hasArgs, args |-> args ]

ListArgs ==
  { EmptyObj,
    ("calendarId" :> "work") @@ ("timeMin" :> "2024-01-01T00:00:00Z")
      @@ ("timeMax" :> "2024-02-01T00:00:00Z") @@ ("maxResults" :> 5),
    ("calendarId" :> "") @@ ("timeMin" :> "") @@ ("maxResults" :> 0) }

CreateArgs ==
  { EmptyObj,
    ("summary" :> "S") @@ ("startDateTime" :> "2024-01-01T10:00:00Z")
      @@ ("endDateTime" :> "2024-01-01T11:00:00Z"),
    ("startDateTime" :> "2024-01-01T10:00:00Z")
      @@ ("endDateTime" :> "2024-01-01T11:00:00Z"),
    ("summary" :> "S") @@ ("endDateTime" :> "2024-01-01T11:00:00Z")
      @@ ("calendarId" :> "work"),
    ("summary" :> "S") @@ ("startDateTime" :> "2024-01-01T10:00:00Z")
      @@ ("description" :> "d") @@ ("attendees" :> <<"a@x.org">>) }

Invocations ==
  { Call("get_auth_url", h, EmptyObj) : h \in BOOLEAN }
    \cup { Call("delete_event", FALSE, EmptyObj) }
    \cup { Call("list_events", FALSE, EmptyObj), Call("create_event", FALSE, EmptyObj) }
    \cup { Call("list_events", TRUE, a) : a \in ListArgs }
    \cup { Call("create_event", TRUE, a) : a \in CreateArgs }

(***************************************************************************)
(* Thrown values and tool results.                                         *)
(***************************************************************************)
\* an Error object (Error, TypeError, a rejection of the API client) with
\* its message and what String() makes of it
ErrorObj(m) == [ isErrorObject |-> TRUE, message |-> m, string |-> "Error: " \o m ]

NoError == [ isErrorObject |-> FALSE, message |-> "", string |-> "undefined" ]

\* reading a property of an `arguments` object that is undefined
PropertyOfUndefined(k) ==
  ErrorObj("Cannot read properties of undefined (reading '" \o k \o "')")

TextItem(t) == [ type |-> "text", text |-> t ]

\* a handler's own result: one text item, no isError member (read as false)
TextResult(t) == [ content |-> << TextItem(t) >>, isError |-> FALSE ]

\* variant: the catch clause stringifies the thrown value instead of taking
\* its message
CatchResultStringified(e) ==
  [ content |-> << TextItem("Error: " \o e.string) >>, isError |-> TRUE ]

\* the catch clause of the call-tool handler
CatchResult(e) ==
  [ content |-> << TextItem("Error: " \o
                     (IF e.isErrorObject THEN e.message ELSE e.string)) >>,
    isError |-> TRUE ]

(***************************************************************************)
(* getAuthUrl.                                                             *)
(***************************************************************************)
CalendarScope == "https://www.googleapis.com/auth/calendar"

\* encodeURIComponent on the strings that occur in the URL
EncodeURIComponent(s) ==
  CASE s = CalendarScope -> "https%3A%2F%2Fwww.googleapis.com%2Fauth%2Fcalendar"
    [] s = OobRedirect -> "urn%3Aietf%3Awg%3Aoauth%3A2.0%3Aoob"
    [] s = "http://localhost/cb" -> "http%3A%2F%2Flocalhost%2Fcb"
    [] OTHER -> s

\* oauth2Client.generateAuthUrl({access_type, scope})
GenerateAuthUrl(client, accessType, scopes) ==
  "https://accounts.google.com/o/oauth2/v2/auth?access_type=" \o accessType
    \o "&scope=" \o EncodeURIComponent(scopes[1])
    \o "&response_type=code&client_id=" \o EncodeURIComponent(client.clientId)
    \o "&redirect_uri=" \o EncodeURIComponent(client.redirectUri)

\* variant: the URL is built from the client's current credentials as well
GetAuthUrlTextWithToken(client) ==
  "Please visit this URL to authorize the application:\n"
    \o GenerateAuthUrl(client, "offline", << CalendarScope >>)
    \o (IF Has(client.credentials, "access_token") THEN "&login_hint=token" ELSE "")
    \o "\n\nAfter authorization, set the GOOGLE_REFRESH_TOKEN environment variable with the refresh token."

GetAuthUrlText(client) ==
  "Please visit this URL to authorize the application:\n"
    \o GenerateAuthUrl(client, "offline", << CalendarScope >>)
    \o "\n\nAfter authorization, set the GOOGLE_REFRESH_TOKEN environment variable with the refresh token."

(***************************************************************************)
(* listEvents and createEvent up to their await.                           *)
(***************************************************************************)
Pick(obj, k, as) == IF Has(obj, k) THEN (as :> obj[k]) ELSE EmptyObj

\* new Date().toISOString() at clock reading t
ToISOString(t) == "2026-11-05T00:00:0" \o ToString(t) \o ".000Z"

ListParams(args, t) ==
  [ calendarId   |-> StrOr(args, "calendarId", "primary"),
    timeMin      |-> StrOr(args, "timeMin", ToISOString(t)),
    maxResults   |-> NumOr(args, "maxResults", 10),
    singleEvents |-> TRUE,
    orderBy      |-> "startTime" ] @@ Pick(args, "timeMax", "timeMax")

AttendeeObjects(emails) == [ i \in DOMAIN emails |-> [ email |-> emails[i] ] ]

EventBody(args) ==
  Pick(args, "summary", "summary") @@ Pick(args, "description", "description")
    @@ ("start" :> (Pick(args, "startDateTime", "dateTime") @@ ("timeZone" :> "UTC")))
    @@ ("end" :> (Pick(args, "endDateTime", "dateTime") @@ ("timeZone" :> "UTC")))
    @@ (IF Has(args, "attendees")
          THEN ("attendees" :> AttendeeObjects(args["attendees"]))
          ELSE EmptyObj)

InsertParams(args) ==
  [ calendarId  |-> StrOr(args, "calendarId", "primary"),
    requestBody |-> EventBody(args) ]

NoCall == [ method |-> "none", params |-> EmptyObj ]

Return(r)  == [ kind |-> "return", result |-> r, error |-> NoError, call |-> NoCall ]
Throw(e)   == [ kind |-> "throw", result |-> CatchResult(e), error |-> e, call |-> NoCall ]
Await(m, p) == [ kind |-> "await", result |-> TextResult(""), error |-> NoError,
                 call |-> [ method |-> m, params |-> p ] ]

ListEventsStart(inv, t) ==
  IF ~inv.hasArgs THEN Throw(PropertyOfUndefined("calendarId"))
  ELSE Await("events.list", ListParams(inv.args, t))

CreateEventStart(inv) ==
  IF ~inv.hasArgs THEN Throw(PropertyOfUndefined("summary"))
  ELSE Await("events.insert", InsertParams(inv.args))

\* variant: the switch has no default branch of its own and an unknown name
\* falls into the list_events case
DispatchFallThrough(inv, client, t) ==
  CASE inv.name = "get_auth_url" -> Return(TextResult(GetAuthUrlText(client)))
    [] inv.name = "create_event" -> CreateEventStart(inv)
    [] OTHER -> ListEventsStart([ inv EXCEPT !.hasArgs = TRUE ], t)

\* the switch of the call-tool handler, run until it returns, throws or awaits
Dispatch(inv, client, t) ==
  CASE inv.name = "get_auth_url" -> Return(TextResult(GetAuthUrlText(client)))
    [] inv.name = "list_events"  -> ListEventsStart(inv, t)
    [] inv.name = "create_event" -> CreateEventStart(inv)
    [] OTHER -> Throw(ErrorObj("Unknown tool: " \o inv.name))

NoLast == [ kind |-> "none" ]

Init ==
  /\ env \in Environments
  /\ phase = "boot"
  /\ oauth2Client = NoClient
  /\ now = 0
  /\ nextId = 1
  /\ inflight = EmptyObj
  /\ responses = <<>>
  /\ last = NoLast

\* const server = new GoogleCalendarMCPServer(): the constructor runs
\* setupAuth and setupToolHandlers; a throw of setupAuth is not caught
Construct ==
  /\ phase = "boot"
  /\ IF SetupAuthThrows(env)
       THEN /\ phase' = "failed"
            /\ UNCHANGED oauth2Client
       ELSE /\ phase' = "constructed"
            /\ oauth2Client' = NewClient(env)
  /\ UNCHANGED <<env, now, nextId, inflight, responses, last>>

\* server.run(): connect the stdio transport, then serve
Run ==
  /\ phase = "constructed"
  /\ phase' = "serving"
  /\ UNCHANGED <<env, oauth2Client, now, nextId, inflight, responses, last>>

\* the wall clock read by new Date()
Tick ==
  /\ now < MaxClock
  /\ now' = now + 1
  /\ UNCHANGED <<env, phase, oauth2Client, nextId, inflight, responses, last>>

\* the ListTools handler: the fixed catalog, in the order of the source
ToolCatalog == << "list_events", "create_event", "get_auth_url" >>

ListTools ==
  /\ phase = "serving"
  /\ last' = [ kind |-> "tools", tools |-> ToolCatalog ]
  /\ UNCHANGED <<env, phase, oauth2Client, now, nextId, inflight, responses>>

(***************************************************************************)
(* What the googleapis client bound to oauth2Client answers.               *)
(***************************************************************************)
RemoteEvent ==
  [ id |-> "e1", summary |-> "S",
    start |-> [ dateTime |-> "2024-01-01T10:00:00Z" ],
    end |-> [ date |-> "2024-01-02" ],
    attendees |-> << [ email |-> "a@x.org", responseStatus |-> "accepted" ] >> ]

ListData == { EmptyObj, ("items" :> << RemoteEvent >>) }

InsertData == { [ id |-> "e2", htmlLink |-> "https://calendar.google.com/event?eid=e2" ] }

Fulfilled(d) == [ ok |-> TRUE, data |-> d, error |-> NoError ]
Rejected(m)  == [ ok |-> FALSE, data |-> EmptyObj, error |-> ErrorObj(m) ]

NoCredentialsMessage ==
  "No access, refresh token, API key or refresh handler callback is set."

\* a client on which setCredentials never ran has nothing to authenticate
\* with and rejects every request; otherwise the service answers or fails
ClientOutcomes(client, method) ==
  IF client.credentials = EmptyObj
    THEN { Rejected(NoCredentialsMessage) }
    ELSE { Rejected("invalid_grant"), Rejected("Not Found") }
           \cup { Fulfilled(d) : d \in IF method = "events.list" THEN ListData ELSE InsertData }

\* the access token the client caches once the refresh token was accepted
CredentialsAfter(client, outcome) ==
  IF Has(client.credentials, "refresh_token") /\ outcome.error.message # "invalid_grant"
    THEN client.credentials @@ ("access_token" :> "ya29.a0")
    ELSE client.credentials

(***************************************************************************)
(* listEvents and createEvent after their await.                           *)
(***************************************************************************)
\* event.start?.dateTime || event.start?.date
TimeOf(event, k) ==
  IF ~Has(event, k) THEN EmptyObj
  ELSE IF ~Missing(event[k], "dateTime") THEN (k :> event[k]["dateTime"])
  ELSE Pick(event[k], "date", k)

EventView(event) ==
  Pick(event, "id", "id") @@ Pick(event, "summary", "summary")
    @@ TimeOf(event, "start") @@ TimeOf(event, "end")
    @@ Pick(event, "description", "description")
    @@ (IF Has(event, "attendees")
          THEN ("attendees" :> [ i \in DOMAIN event["attendees"] |-> event["attendees"][i].email ])
          ELSE EmptyObj)

JsonString(s) == "\"" \o s \o "\""

RECURSIVE JsonList(_, _)
JsonList(strs, indent) ==
  IF strs = <<>> THEN ""
  ELSE indent \o JsonString(Head(strs))
         \o (IF Len(strs) > 1 THEN ",\n" ELSE "\n")
         \o JsonList(Tail(strs), indent)

ViewKeys == << "id", "summary", "start", "end", "description", "attendees" >>

RECURSIVE JsonMembers(_, _)
JsonMembers(view, keys) ==
  IF keys = <<>> THEN ""
  ELSE LET k == Head(keys)
           rest == SelectSeq(Tail(keys), LAMBDA x : Has(view, x))
       IN (IF Has(view, k)
             THEN "    " \o JsonString(k) \o ": "
                    \o (IF k = "attendees"
                          THEN (IF view[k] = <<>> THEN "[]"
                                ELSE "[\n" \o JsonList(view[k], "      ") \o "    ]")
                          ELSE JsonString(view[k]))
                    \o (IF rest # <<>> THEN ",\n" ELSE "\n")
             ELSE "")
          \o JsonMembers(view, Tail(keys))

JsonObject(view) ==
  IF DOMAIN view = {} THEN "{}" ELSE "{\n" \o JsonMembers(view, ViewKeys) \o "  }"

RECURSIVE JsonObjects(_)
JsonObjects(views) ==
  IF views = <<>> THEN ""
  ELSE "  " \o JsonObject(Head(views))
         \o (IF Len(views) > 1 THEN ",\n" ELSE "\n")
         \o JsonObjects(Tail(views))

\* JSON.stringify(views, null, 2)
Stringify(views) == IF views = <<>> THEN "[]" ELSE "[\n" \o JsonObjects(views) \o "]"

ListEventsFinish(data) ==
  LET events == IF Has(data, "items") THEN data["items"] ELSE <<>>
  IN TextResult(Stringify([ i \in DOMAIN events |-> EventView(events[i]) ]))

CreateEventFinish(data) ==
  TextResult("Event created successfully!\nEvent ID: " \o data.id
               \o "\nEvent Link: " \o data.htmlLink)

\* the rest of the handler once the awaited call has settled
Resume(method, outcome) ==
  IF ~outcome.ok THEN Throw(outcome.error)
  ELSE IF method = "events.list" THEN Return(ListEventsFinish(outcome.data))
  ELSE Return(CreateEventFinish(outcome.data))

(***************************************************************************)
(* The CallTool handler.                                                   *)
(***************************************************************************)
Completed(id, inv, calls, call, step) ==
  [ kind |-> "call", id |-> id, inv |-> inv, calls |-> calls, call |-> call,
    raised |-> (step.kind = "throw"), error |-> step.error, result |-> step.result ]

\* a tools/call request arrives: the handler runs until it returns a result
\* or suspends on the awaited remote call
CallTool(inv) ==
  /\ phase = "serving"
  /\ nextId <= MaxReq
  /\ LET step == Dispatch(inv, oauth2Client, now)
     IN IF step.kind = "await"
          THEN /\ inflight' = inflight @@ (nextId :> [ inv |-> inv, call |-> step.call, calls |-> 1 ])
               /\ UNCHANGED <<responses, last>>
          ELSE /\ last' = Completed(nextId, inv, 0, NoCall, step)
               /\ responses' = Append(responses, nextId)
               /\ UNCHANGED inflight
  /\ nextId' = nextId + 1
  /\ UNCHANGED <<env, phase, oauth2Client, now>>

\* variant: the response is written but the request is not retired
SettleKeepsRequest(id, outcome) ==
  /\ id \in DOMAIN inflight
  /\ outcome \in ClientOutcomes(oauth2Client, inflight[id].call.method)
  /\ LET r == inflight[id]
         step == Resume(r.call.method, outcome)
     IN /\ last' = Completed(id, r.inv, r.calls, r.call, step)
        /\ responses' = Append(responses, id)
        /\ inflight' = IF Len(responses) < MaxReq THEN inflight
                       ELSE [ j \in (DOMAIN inflight) \ {id} |-> inflight[j] ]
  /\ oauth2Client' = [ oauth2Client EXCEPT !.credentials = CredentialsAfter(oauth2Client, outcome) ]
  /\ UNCHANGED <<env, phase, now, nextId>>

\* variant: a failed remote call is issued once more before giving up
SettleRetriesOnce(id, outcome) ==
  /\ id \in DOMAIN inflight
  /\ outcome \in ClientOutcomes(oauth2Client, inflight[id].call.method)
  /\ LET r == inflight[id]
         step == Resume(r.call.method, outcome)
     IN IF ~outcome.ok /\ r.calls < 2
          THEN /\ inflight' = [ inflight EXCEPT ![id].calls = 2 ]
               /\ UNCHANGED <<last, responses>>
          ELSE /\ last' = Completed(id, r.inv, r.calls, r.call, step)
               /\ responses' = Append(responses, id)
               /\ inflight' = [ j \in (DOMAIN inflight) \ {id} |-> inflight[j] ]
  /\ oauth2Client' = [ oauth2Client EXCEPT !.credentials = CredentialsAfter(oauth2Client, outcome) ]
  /\ UNCHANGED <<env, phase, now, nextId>>

\* variant: a rejected refresh token is dropped from the client
SettleDropsToken(id, outcome) ==
  /\ id \in DOMAIN inflight
  /\ outcome \in ClientOutcomes(oauth2Client, inflight[id].call.method)
  /\ LET r == inflight[id]
         step == Resume(r.call.method, outcome)
     IN /\ last' = Completed(id, r.inv, r.calls, r.call, step)
        /\ responses' = Append(responses, id)
        /\ inflight' = [ j \in (DOMAIN inflight) \ {id} |-> inflight[j] ]
  /\ oauth2Client' =
       [ oauth2Client EXCEPT !.credentials =
           IF outcome.error.message = "invalid_grant" THEN EmptyObj
           ELSE CredentialsAfter(oauth2Client, outcome) ]
  /\ UNCHANGED <<env, phase, now, nextId>>

\* the awaited remote call of request id settles and the handler finishes
Settle(id, outcome) ==
  /\ id \in DOMAIN inflight
  /\ outcome \in ClientOutcomes(oauth2Client, inflight[id].call.method)
  /\ LET r == inflight[id]
         step == Resume(r.call.method, outcome)
     IN /\ last' = Completed(id, r.inv, r.calls, r.call, step)
        /\ responses' = Append(responses, id)
        /\ inflight' = [ j \in (DOMAIN inflight) \ {id} |-> inflight[j] ]
  /\ oauth2Client' = [ oauth2Client EXCEPT !.credentials = CredentialsAfter(oauth2Client, outcome) ]
  /\ UNCHANGED <<env, phase, now, nextId>>

Outcomes == UNION { ClientOutcomes(c, m) :
                      c \in { NoClient, [ NoClient EXCEPT !.credentials = ("refresh_token" :> "rtok") ] },
                      m \in { "events.list", "events.insert" } }

Next ==
  \/ Construct
  \/ Run
  \/ Tick
  \/ ListTools
  \/ \E inv \in Invocations : CallTool(inv)
  \/ \E id \in 1..MaxReq, outcome \in Outcomes : Settle(id, outcome)

Spec == Init /\ [][Next]_vars

(***************************************************************************)
(* Vocabulary of the properties.                                           *)
(***************************************************************************)
\* the invocation that resolved last was of tool n
Resolved(n) == last.kind = "call" /\ last.inv.name = n

ErrorResult(m) == [ content |-> << [ type |-> "text", text |-> "Error: " \o m ] >>,
                    isError |-> TRUE ]

Authorized == Has(oauth2Client.credentials, "refresh_token")

Occurrences(seq, x) == Cardinality({ i \in DOMAIN seq : seq[i] = x })

\* C1: every tool invocation that resolves has produced a result of one text
\* item while the process keeps serving, and whenever the handler raised a
\* condition with message m the result is isError = true with the single
\* text "Error: " followed by m.
C1_ErrorsBecomeResults ==
  last.kind = "call" =>
    /\ phase = "serving"
    /\ Occurrences(responses, last.id) = 1
    /\ Len(last.result.content) = 1
    /\ last.result.content[1].type = "text"
    /\ last.raised => last.result = ErrorResult(last.error.message)
    /\ ~last.raised => ~last.result.isError

C1_Witness ==
  /\ Resolved("create_event")
  /\ last.raised
  /\ last.calls = 1
  /\ last.result = ErrorResult("Not Found")

\* C2: an unregistered tool name yields isError = true with the text
\* "Error: Unknown tool: <name>", and that invocation runs no handler and
\* makes no remote calendar call.
C2_UnknownTool ==
  /\ \A id \in DOMAIN inflight : inflight[id].inv.name \in ToolNames
  /\ (last.kind = "call" /\ last.inv.name \notin ToolNames) =>
       /\ last.result = ErrorResult("Unknown tool: " \o last.inv.name)
       /\ last.calls = 0
       /\ last.call = NoCall

C2_Witness ==
  /\ Resolved("delete_event")
  /\ last.result = ErrorResult("Unknown tool: delete_event")

\* C3: create_event without summary, startDateTime or endDateTime ends in
\* isError = true and performs no remote insert call, in every credentials
\* state and whatever the remote service answers.
LacksRequired(inv) ==
  \/ ~inv.hasArgs
  \/ \E k \in { "summary", "startDateTime", "endDateTime" } : ~Has(inv.args, k)

C3_RequiredFieldsChecked ==
  /\ \A id \in DOMAIN inflight :
       (inflight[id].inv.name = "create_event" /\ LacksRequired(inflight[id].inv))
         => inflight[id].call.method # "events.insert"
  /\ (Resolved("create_event") /\ LacksRequired(last.inv)) =>
       (last.result.isError /\ last.calls = 0)

\* C4: list_events with no arguments (absent or empty) issues a remote list
\* call with exactly calendarId = "primary", maxResults = 10, timeMin = the
\* current instant and no timeMax; in general every missing optional field
\* takes its default and every supplied field is passed unchanged.
Supplied(inv, k) == inv.hasArgs /\ Has(inv.args, k)

DefaultedListParams(inv, t) ==
  [ calendarId   |-> IF Supplied(inv, "calendarId") THEN inv.args["calendarId"] ELSE "primary",
    timeMin      |-> IF Supplied(inv, "timeMin") THEN inv.args["timeMin"] ELSE ToISOString(t),
    maxResults   |-> IF Supplied(inv, "maxResults") THEN inv.args["maxResults"] ELSE 10,
    singleEvents |-> TRUE,
    orderBy      |-> "startTime" ]
    @@ (IF Supplied(inv, "timeMax") THEN ("timeMax" :> inv.args["timeMax"]) ELSE EmptyObj)

C4_ListDefaults ==
  /\ [](Resolved("list_events") => last.calls = 1 /\ last.call.method = "events.list")
  /\ [][ \A id \in (DOMAIN inflight') \ (DOMAIN inflight) :
           inflight'[id].inv.name = "list_events" =>
             inflight'[id].call.params = DefaultedListParams(inflight'[id].inv, now) ]_vars

\* C5: without a refresh token every list_events and create_event invocation
\* ends in isError = true with no remote calendar call attempted, and such
\* an invocation ends in success only when a refresh token is present.
C5_NoCallUnlessAuthorized ==
  /\ (phase = "serving" /\ ~Authorized) =>
       /\ inflight = EmptyObj
       /\ (Resolved("list_events") \/ Resolved("create_event")) =>
            (last.result.isError /\ last.calls = 0)
  /\ ((Resolved("list_events") \/ Resolved("create_event")) /\ ~last.result.isError)
       => Authorized

\* C6: get_auth_url always succeeds with the text determined by the startup
\* configuration alone, makes no remote call and leaves the client and its
\* credentials unchanged.
C6_AuthUrlPure ==
  /\ [](Resolved("get_auth_url") =>
          /\ last.result = [ content |-> << [ type |-> "text",
                                              text |-> GetAuthUrlText(NewClient(env)) ] >>,
                             isError |-> FALSE ]
          /\ last.calls = 0
          /\ last.call = NoCall)
  /\ [][ (nextId' # nextId /\ last'.kind = "call" /\ last'.id = nextId
            /\ last'.inv.name = "get_auth_url")
           => (oauth2Client' = oauth2Client /\ inflight' = inflight /\ env' = env) ]_vars

C6_Witness ==
  /\ Resolved("get_auth_url")
  /\ last.id > 1
  /\ Has(oauth2Client.credentials, "access_token")
  /\ ~last.result.isError

\* C7: the process fails only at startup and only when clientId or
\* clientSecret is absent, in which case nothing is ever served; once it
\* serves it keeps serving, whatever the invocations ended in.
NothingServed == last = NoLast /\ nextId = 1 /\ responses = <<>> /\ inflight = EmptyObj

ConfigAbsent == Missing(env, "GOOGLE_CLIENT_ID") \/ Missing(env, "GOOGLE_CLIENT_SECRET")

C7_OnlyStartupFailureTerminates ==
  /\ [](ConfigAbsent => (phase \in { "boot", "failed" } /\ NothingServed))
  /\ [](phase = "failed" => ConfigAbsent)
  /\ [](phase # "serving" => NothingServed)
  /\ [][ (phase = "serving") => (phase' = "serving") ]_vars
  /\ [](phase = "serving" /\ nextId <= MaxReq
          => ENABLED (\E inv \in Invocations : CallTool(inv)))

C7_Witness ==
  /\ phase = "serving"
  /\ last.kind = "call"
  /\ last.id > 1
  /\ last.result.isError
  /\ last.calls = 1

MethodOf(name) ==
  CASE name = "list_events" -> "events.list"
    [] name = "create_event" -> "events.insert"
    [] OTHER -> "none"

C9_NoRetry ==
  /\ \A id \in DOMAIN inflight :
       /\ inflight[id].calls = 1
       /\ inflight[id].call.method = MethodOf(inflight[id].inv.name)
       /\ inflight[id].call.method # "none"
  /\ last.kind = "call" =>
       /\ last.calls <= 1
       /\ last.calls = 1 => last.call.method = MethodOf(last.inv.name)
       /\ MethodOf(last.inv.name) = "none" => last.calls = 0
       /\ (last.calls = 1 /\ last.raised) =>
            /\ last.result = ErrorResult(last.error.message)
            /\ last.id \notin DOMAIN inflight
            /\ Occurrences(responses, last.id) = 1

C9_Witness ==
  /\ Resolved("list_events")
  /\ last.calls = 1
  /\ last.raised
  /\ last.result = ErrorResult("invalid_grant")

\* C10: after startup no step changes clientId, clientSecret, redirectUri or
\* the refresh token, which keep the values read from the environment; only
\* the cached access token changes.
ConfigOf(client) ==
  [ clientId |-> client.clientId, clientSecret |-> client.clientSecret,
    redirectUri |-> client.redirectUri,
    refreshToken |-> Pick(client.credentials, "refresh_token", "refresh_token") ]

C10_ConfigurationFrozen ==
  /\ [][ (phase \in { "constructed", "serving" }) =>
           (ConfigOf(oauth2Client') = ConfigOf(oauth2Client) /\ env' = env) ]_vars
  /\ [](phase \in { "constructed", "serving" } =>
          /\ oauth2Client.clientId = env["GOOGLE_CLIENT_ID"]
          /\ oauth2Client.clientSecret = env["GOOGLE_CLIENT_SECRET"]
          /\ oauth2Client.redirectUri =
               (IF Missing(env, "GOOGLE_REDIRECT_URI") THEN OobRedirect
                ELSE env["GOOGLE_REDIRECT_URI"])
          /\ Authorized = ~Missing(env, "GOOGLE_REFRESH_TOKEN")
          /\ DOMAIN oauth2Client.credentials \subseteq { "refresh_token", "access_token" })

C10_Witness ==
  /\ Has(oauth2Client.credentials, "access_token")
  /\ last.kind = "call"
  /\ last.raised
  /\ last.error.message = "invalid_grant"
====
